---- MODULE Spec2Model ----
(***************************************************************************)
(* Model of mimic.py: the request entry point RunMimic, tenant (project     *)
(* id) resolution, the namespace scope around each request, and the target  *)
(* application pipeline RunTargetApp.                                        *)
(*                                                                          *)
(* Strings the code takes apart are sequences of tokens: a PATH_INFO is a    *)
(* sequence of path pieces, an HTTP_HOST a sequence of labels, delimiters    *)
(* and a port, a QUERY_STRING a sequence of <<key, value>> pairs.            *)
(* Python's None is the value None; a value is "truthy" when it is neither   *)
(* None nor the empty string.                                                *)
(***************************************************************************)
EXTENDS Integers, Sequences, FiniteSets, TLC

None == "None"

Truthy(x) == x # None /\ x # ""

\* ------------------------------------------------------------------------
\* Constants of the common module and of the deployment
\* ------------------------------------------------------------------------

CONTROL_PREFIX == <<"/_ah/mimic">>

SHELL_PREFIX == <<"/_ah/shell">>

PROJECT_ID_QUERY_PARAM == "project"

\* the path piece after which PROJECT_ID_FROM_PATH_INFO_RE captures group 1
PROJECT_ID_PATH_PREFIX == "/p/"

DefaultVersionHostname == <<"your-app-id", ".", "appspot", ".", "com">>

\* labels that are decimal numbers (the pieces of an IPv4 literal)
Octets == {"127", "0", "1"}

\* ------------------------------------------------------------------------
\* The requests of the model
\* ------------------------------------------------------------------------

\* values of the HTTP_X_APPENGINE_CURRENT_NAMESPACE variable
NamespaceHeaders == {None, "", "ns1"}

\* a project id with a character validate_namespace rejects
BadProjectId == "q bad"

QueryStrings ==
  { <<>>,
    << <<"project", "q1">> >>,
    << <<"project", "q1">>, <<"project", "q2">> >>,
    << <<"project", "">>, <<"x", "1">> >>,
    << <<"project", BadProjectId>> >> }

ControlPaths ==
  { <<"/_ah/mimic", "/version_id">>,
    <<"/_ah/mimic", "/file">>,
    <<"/_ah/mimic", "/log">>,
    <<"/_ah/mimic", "/index">> }

ShellPaths == { <<"/_ah/shell", "/eval">> }

TargetPaths ==
  { <<"/">>,
    <<"/main">>,
    <<"/p/", "p1", "/main">>,
    <<"/p/", "", "/main">> }

Paths == ControlPaths \cup ShellPaths \cup TargetPaths

Hosts ==
  { <<"localhost", ":", "8080">>,
    <<"127", ".", "0", ".", "0", ".", "1">>,
    <<"your-app-id", ".", "appspot", ".", "com">>,
    <<"proj1", "-dot-", "your-app-id", ".", "appspot", ".", "com", ":", "443">>,
    <<"-dot-", "your-app-id", ".", "appspot", ".", "com">> }

\* SERVER_SOFTWARE of the request: development server or production
DevModes == BOOLEAN

Environs ==
  [ PATH_INFO : Paths,
    HTTP_HOST : Hosts,
    QUERY_STRING : QueryStrings,
    CURRENT_NAMESPACE : NamespaceHeaders,
    dev : DevModes ]

\* ------------------------------------------------------------------------
\* Sequence helpers (str.startswith, str.replace, str.split)
\* ------------------------------------------------------------------------

StartsWith(s, prefix) ==
  /\ Len(s) >= Len(prefix)
  /\ SubSeq(s, 1, Len(prefix)) = prefix

\* s.replace('-dot-', '.')
ReplaceDot(s) == [i \in 1..Len(s) |-> IF s[i] = "-dot-" THEN "." ELSE s[i]]

\* index of the first occurrence of token t in s, Len(s)+1 when there is none
FirstIndex(s, t) ==
  IF \E i \in 1..Len(s) : s[i] = t
  THEN CHOOSE i \in 1..Len(s) : s[i] = t /\ \A j \in 1..(i - 1) : s[j] # t
  ELSE Len(s) + 1

\* s.split(t)[0]
SplitHead(s, t) == SubSeq(s, 1, FirstIndex(s, t) - 1)

\* ------------------------------------------------------------------------
\* Tenant resolution
\* ------------------------------------------------------------------------

\* common.IPV4_REGEX: four decimal labels separated by dots
IPV4_REGEX_match(h) ==
  /\ Len(h) = 7
  /\ \A i \in {1, 3, 5, 7} : h[i] \in Octets
  /\ \A i \in {2, 4, 6} : h[i] = "."

\* common.TOP_LEVEL_APPSPOT_COM_REGEX: <app-id>.appspot.com
TOP_LEVEL_APPSPOT_COM_REGEX_match(h) ==
  /\ Len(h) = 5
  /\ h[1] \notin {".", ":"}
  /\ SubSeq(h, 2, 5) = <<".", "appspot", ".", "com">>

\* the first label of a host: '' when the host is empty or starts with a dot
FirstLabel(h) ==
  LET head == SplitHead(h, ".")
  IN IF head = <<>> THEN "" ELSE head[1]

\* GetProjectIdFromHttpHost that leaves the port on the host
GetProjectIdFromHttpHost_KeepPort(environ) ==
  LET http_host == ReplaceDot(environ.HTTP_HOST)
  IN IF \/ http_host = <<"localhost">>
        \/ IPV4_REGEX_match(http_host)
        \/ TOP_LEVEL_APPSPOT_COM_REGEX_match(http_host)
        \/ http_host = DefaultVersionHostname
     THEN None
     ELSE FirstLabel(http_host)

GetProjectIdFromHttpHost(environ) ==
  LET http_host == SplitHead(ReplaceDot(environ.HTTP_HOST), ":")
  IN IF \/ http_host = <<"localhost">>
        \/ IPV4_REGEX_match(http_host)
        \/ TOP_LEVEL_APPSPOT_COM_REGEX_match(http_host)
        \/ http_host = DefaultVersionHostname
     THEN None
     ELSE FirstLabel(http_host)

\* urlparse.parse_qsl(qs, strict_parsing=False): pairs with a blank value
\* are dropped
RECURSIVE parse_qsl(_)
parse_qsl(qs) ==
  IF qs = <<>> THEN <<>>
  ELSE IF Head(qs)[2] = "" THEN parse_qsl(Tail(qs))
       ELSE <<Head(qs)>> \o parse_qsl(Tail(qs))

\* dict(pairs).get(key): the last pair with the key wins, None without one
RECURSIVE DictGet(_, _)
DictGet(pairs, key) ==
  IF pairs = <<>> THEN None
  ELSE LET last == pairs[Len(pairs)]
       IN IF last[1] = key THEN last[2]
          ELSE DictGet(SubSeq(pairs, 1, Len(pairs) - 1), key)

GetProjectIdFromQueryParam(environ) ==
  LET qs == environ.QUERY_STRING
  IN IF qs = <<>> THEN None
     ELSE DictGet(parse_qsl(qs), PROJECT_ID_QUERY_PARAM)

\* common.config.PROJECT_ID_FROM_PATH_INFO_RE.match(path_info), group 1
GetProjectIdFromPathInfo(environ) ==
  LET path_info == environ.PATH_INFO
  IN IF Len(path_info) >= 2 /\ path_info[1] = PROJECT_ID_PATH_PREFIX
     THEN path_info[2]
     ELSE None

\* GetProjectId remembering the id of every source
GetProjectId_RememberAny(environ, use_sticky_project_id, state) ==
  LET header == environ.CURRENT_NAMESPACE
      query == GetProjectIdFromQueryParam(environ)
      path == GetProjectIdFromPathInfo(environ)
      host == GetProjectIdFromHttpHost(environ)
      found == IF Truthy(header) THEN header
               ELSE IF Truthy(query) THEN query
               ELSE IF Truthy(path) THEN path
               ELSE host
  IN IF Truthy(found)
     THEN [project_id |-> found,
           state |-> IF use_sticky_project_id THEN found ELSE state]
     ELSE IF use_sticky_project_id
       THEN [project_id |-> state, state |-> state]
     ELSE [project_id |-> host, state |-> state]

\* GetProjectId forgetting the remembered id when the query has none
GetProjectId_ForgetWithoutQuery(environ, use_sticky_project_id, state) ==
  LET header == environ.CURRENT_NAMESPACE
      query == GetProjectIdFromQueryParam(environ)
      path == GetProjectIdFromPathInfo(environ)
      host == GetProjectIdFromHttpHost(environ)
  IN IF Truthy(header) THEN [project_id |-> header, state |-> state]
     ELSE IF Truthy(query)
       THEN [project_id |-> query,
             state |-> IF use_sticky_project_id THEN query ELSE state]
     ELSE IF Truthy(path) THEN [project_id |-> path, state |-> None]
     ELSE IF Truthy(host) THEN [project_id |-> host, state |-> None]
     ELSE IF use_sticky_project_id
       THEN [project_id |-> state, state |-> state]
     ELSE [project_id |-> host, state |-> state]

\* GetProjectId falling back on the remembered id in production too
GetProjectId_AlwaysSticky(environ, use_sticky_project_id, state) ==
  LET header == environ.CURRENT_NAMESPACE
      query == GetProjectIdFromQueryParam(environ)
      path == GetProjectIdFromPathInfo(environ)
      host == GetProjectIdFromHttpHost(environ)
  IN IF Truthy(header) THEN [project_id |-> header, state |-> state]
     ELSE IF Truthy(query)
       THEN [project_id |-> query,
             state |-> IF use_sticky_project_id THEN query ELSE state]
     ELSE IF Truthy(path) THEN [project_id |-> path, state |-> state]
     ELSE IF Truthy(host) THEN [project_id |-> host, state |-> state]
     ELSE [project_id |-> state, state |-> state]

\* GetProjectId with the host header tried before the query parameter
GetProjectId_HostFirst(environ, use_sticky_project_id, state) ==
  LET header == environ.CURRENT_NAMESPACE
      query == GetProjectIdFromQueryParam(environ)
      path == GetProjectIdFromPathInfo(environ)
      host == GetProjectIdFromHttpHost(environ)
  IN IF Truthy(header) THEN [project_id |-> header, state |-> state]
     ELSE IF Truthy(host) THEN [project_id |-> host, state |-> state]
     ELSE IF Truthy(query)
       THEN [project_id |-> query,
             state |-> IF use_sticky_project_id THEN query ELSE state]
     ELSE IF Truthy(path) THEN [project_id |-> path, state |-> state]
     ELSE IF use_sticky_project_id
       THEN [project_id |-> state, state |-> state]
     ELSE [project_id |-> host, state |-> state]

\* GetProjectId returns the id and the new value of
\* _dev_appserver_state['project_id'] (None: no such key)
GetProjectId(environ, use_sticky_project_id, state) ==
  LET header == environ.CURRENT_NAMESPACE
      query == GetProjectIdFromQueryParam(environ)
      path == GetProjectIdFromPathInfo(environ)
      host == GetProjectIdFromHttpHost(environ)
  IN IF Truthy(header) THEN [project_id |-> header, state |-> state]
     ELSE IF Truthy(query)
       THEN [project_id |-> query,
             state |-> IF use_sticky_project_id THEN query ELSE state]
     ELSE IF Truthy(path) THEN [project_id |-> path, state |-> state]
     ELSE IF Truthy(host) THEN [project_id |-> host, state |-> state]
     ELSE IF use_sticky_project_id
       THEN [project_id |-> state, state |-> state]
     ELSE [project_id |-> host, state |-> state]

\* namespace_manager.validate_namespace: raises BadValueError unless the
\* namespace is made of the allowed characters
validate_namespace(ns) == ns # BadProjectId

\* project id or ''
OrEmpty(project_id) == IF Truthy(project_id) THEN project_id ELSE ""

\* ------------------------------------------------------------------------
\* namespace_manager: the active namespace is one process-wide variable;
\* None: no namespace is set
\* ------------------------------------------------------------------------

\* namespace_manager.get_namespace(): '' when no namespace is set
get_namespace(current) == IF current = None THEN "" ELSE current

\* namespace_manager.set_namespace(ns): None unsets the namespace
set_namespace(ns) == ns

\* ------------------------------------------------------------------------
\* control module: which control paths need a tree or a namespace
\* ------------------------------------------------------------------------

ControlRequestRequiresTree(path_info) ==
  path_info \in { <<"/_ah/mimic", "/file">>, <<"/_ah/mimic", "/index">> }

ControlRequestRequiresNamespace(path_info) ==
  path_info \in { <<"/_ah/mimic", "/file">>, <<"/_ah/mimic", "/log">> }

\* ------------------------------------------------------------------------
\* target_info: pages and the handler table of an app.yaml
\* ------------------------------------------------------------------------

LOGIN_NONE == "login_none"

LOGIN_REQUIRED == "login_required"

LOGIN_ADMIN == "login_admin"

SECURE_DEFAULT == "secure_default"

SECURE_ALWAYS == "secure_always"

Logins == {LOGIN_NONE, LOGIN_REQUIRED, LOGIN_ADMIN}

Secures == {SECURE_DEFAULT, SECURE_ALWAYS}

\* StaticPage, ScriptPage, and a page object of neither class
PageKinds == {"StaticPage", "ScriptPage", "OtherPage"}

Pages == [kind : PageKinds, login : Logins, secure : Secures]

\* FindPage found no handler
NoPage == [kind |-> "NoPage", login |-> LOGIN_NONE, secure |-> SECURE_DEFAULT]

\* a handler's url pattern: a path, or a path prefix followed by ".*"
UrlMatches(url, path_info) ==
  IF url # <<>> /\ url[Len(url)] = ".*"
  THEN StartsWith(path_info, SubSeq(url, 1, Len(url) - 1))
  ELSE url = path_info

\* target_info.FindPage: the page of the first handler whose url matches
FindPage(handlers, path_info) ==
  LET matching == {i \in 1..Len(handlers) : UrlMatches(handlers[i].url, path_info)}
  IN IF matching = {} THEN NoPage
     ELSE handlers[CHOOSE i \in matching : \A j \in matching : i <= j].page

HandlerTables ==
  { <<>> }
  \cup { << [url |-> <<"/main">>, page |-> p] >> : p \in Pages }
  \cup { << [url |-> <<"/", ".*">>,
             page |-> [kind |-> "StaticPage", login |-> LOGIN_NONE,
                       secure |-> SECURE_DEFAULT]],
            [url |-> <<"/main">>,
             page |-> [kind |-> "ScriptPage", login |-> LOGIN_ADMIN,
                       secure |-> SECURE_ALWAYS]] >> }

\* tree.GetFileContents('app.yaml') and what yaml.safe_load makes of it
AppYamls ==
  { [kind |-> k, handlers |-> <<>>] : k \in {"missing", "yaml_error", "not_dict"} }
  \cup { [kind |-> "dict", handlers |-> h] : h \in HandlerTables }

\* ------------------------------------------------------------------------
\* The collaborators' answers during one RunTargetApp
\* ------------------------------------------------------------------------

Users == {"anonymous", "user", "admin"}

\* HTTP_X_APPENGINE_QUEUENAME and HTTP_X_APPENGINE_CRON
QueueNames == {None, "", "default"}

CronValues == {None, "true"}

Schemes == {"http", "https"}

\* env.RunScript: the script emits its response, is not found, or raises
ScriptOutcomes == {"ran", "ScriptNotFoundError", "ScriptError"}

Worlds ==
  [ app_yaml : AppYamls,
    file_data : {None, "data"},
    script : ScriptOutcomes,
    scheme : Schemes,
    user : Users,
    queue : QueueNames,
    cron : CronValues ]

\* users_mod.get_current_user()
get_current_user(users_mod) == IF users_mod = "anonymous" THEN None ELSE users_mod

\* users_mod.is_current_user_admin()
is_current_user_admin(users_mod) == users_mod = "admin"

\* ------------------------------------------------------------------------
\* RunTargetApp
\* ------------------------------------------------------------------------

NOT_FOUND == 404

FOUND == 302

FORBIDDEN == 403

OK == 200

NoUrl == [scheme |-> "", host |-> <<>>, path |-> <<>>, has_query |-> FALSE,
          query |-> <<>>]

\* the body of a response: its text, the path it names, the link it carries
\* and the display name it shows
Body(text, path, url, name) ==
  [text |-> text, path |-> path, url |-> url, name |-> name]

\* a body of plain text
Plain(text) == Body(text, <<>>, NoUrl, "")

\* _NOT_FOUND_PAGE % path
NotFoundPage(path) == Body("_NOT_FOUND_PAGE", path, NoUrl, "")

\* user.nickname()
nickname(user) == user

RespondWithStatus(status_code, data, location) ==
  [status |-> status_code, data |-> data, location |-> location]

\* _IsAuthorized without the task queue and cron rule
_IsAuthorized_NoSystem(page, users_mod, w) ==
  IF page.login = LOGIN_NONE THEN TRUE
  ELSE IF get_current_user(users_mod) # None /\ is_current_user_admin(users_mod)
    THEN TRUE
  ELSE IF page.login = LOGIN_REQUIRED /\ get_current_user(users_mod) # None
    THEN TRUE
  ELSE FALSE

\* _IsAuthorized letting any logged-in user pass, whatever the login rule
_IsAuthorized_AnyUser(page, users_mod, w) ==
  IF page.login = LOGIN_NONE THEN TRUE
  ELSE IF get_current_user(users_mod) # None /\ is_current_user_admin(users_mod)
    THEN TRUE
  ELSE IF Truthy(w.queue) \/ Truthy(w.cron) THEN TRUE
  ELSE IF get_current_user(users_mod) # None THEN TRUE
  ELSE FALSE

_IsAuthorized(page, users_mod, w) ==
  IF page.login = LOGIN_NONE THEN TRUE
  ELSE IF get_current_user(users_mod) # None /\ is_current_user_admin(users_mod)
    THEN TRUE
  ELSE IF Truthy(w.queue) \/ Truthy(w.cron) THEN TRUE
  ELSE IF page.login = LOGIN_REQUIRED /\ get_current_user(users_mod) # None
    THEN TRUE
  ELSE FALSE

\* _CurrentUrl ignoring force_https
_CurrentUrl_NoForce(environ, w, force_https) ==
  LET query == environ.QUERY_STRING
  IN [scheme |-> w.scheme, host |-> environ.HTTP_HOST,
      path |-> environ.PATH_INFO,
      has_query |-> query # <<>>,
      query |-> IF query # <<>> THEN query ELSE <<>>]

_CurrentUrl(environ, w, force_https) ==
  LET scheme == IF force_https THEN "https" ELSE w.scheme
      query == environ.QUERY_STRING
  IN [scheme |-> scheme, host |-> environ.HTTP_HOST, path |-> environ.PATH_INFO,
      has_query |-> query # <<>>,
      query |-> IF query # <<>> THEN query ELSE <<>>]

\* the outcome of a function: the responses it printed, the calls it made,
\* and the error it raised (None: it returned)
Outcome(printed, calls, raised) ==
  [responses |-> printed, calls |-> calls, error |-> raised]

\* a static page handler that goes on after the 404 of an absent file
ServeStaticPage_NoReturn(w) ==
  IF w.file_data = None
  THEN Outcome(<< RespondWithStatus(NOT_FOUND, NotFoundPage(<<"file_path">>),
                                    NoUrl),
                  RespondWithStatus(OK, Plain(""), NoUrl) >>,
               <<"ServeStaticPage">>, None)
  ELSE Outcome(<< RespondWithStatus(OK, Plain(w.file_data), NoUrl) >>,
               <<"ServeStaticPage">>, None)

ServeStaticPage(w) ==
  IF w.file_data = None
  THEN Outcome(<< RespondWithStatus(NOT_FOUND, NotFoundPage(<<"file_path">>),
                                    NoUrl) >>,
               <<"ServeStaticPage">>, None)
  ELSE Outcome(<< RespondWithStatus(OK, Plain(w.file_data), NoUrl) >>,
               <<"ServeStaticPage">>, None)

ServeScriptPage(w) ==
  IF w.script = "ScriptNotFoundError"
  THEN Outcome(<< RespondWithStatus(NOT_FOUND, Plain("could not find script"),
                                    NoUrl) >>,
               <<"ServeScriptPage", "RunScript">>, None)
  ELSE IF w.script = "ScriptError"
  THEN Outcome(<<>>, <<"ServeScriptPage", "RunScript">>, "ScriptError")
  ELSE Outcome(<<>>, <<"ServeScriptPage", "RunScript">>, None)

\* a 404 that does not name the path
NotFoundResponse_NoPath(path_info) ==
  RespondWithStatus(NOT_FOUND, NotFoundPage(<<>>), NoUrl)

\* the 404 of RunTargetApp for a path without a handler
NotFoundResponse(path_info) ==
  RespondWithStatus(NOT_FOUND, NotFoundPage(path_info), NoUrl)

\* a 403 that offers the login link to a logged-in caller
DenyResponse_Swapped(users_mod, environ, w) ==
  LET user == get_current_user(users_mod)
  IN IF user # None
     THEN RespondWithStatus(
            FORBIDDEN,
            Body("login", <<>>, _CurrentUrl(environ, w, FALSE), ""),
            NoUrl)
     ELSE RespondWithStatus(
            FORBIDDEN,
            Body("logout", <<>>, _CurrentUrl(environ, w, FALSE), nickname(user)),
            NoUrl)

\* the 403 of RunTargetApp: a logout link and the nickname for a logged-in
\* caller, a login link otherwise, both leading back to the current URL
DenyResponse(users_mod, environ, w) ==
  LET user == get_current_user(users_mod)
  IN IF user # None
     THEN RespondWithStatus(
            FORBIDDEN,
            Body("logout", <<>>, _CurrentUrl(environ, w, FALSE), nickname(user)),
            NoUrl)
     ELSE RespondWithStatus(
            FORBIDDEN,
            Body("login", <<>>, _CurrentUrl(environ, w, FALSE), ""),
            NoUrl)

\* the outcome of RunTargetApp, with the answer of _IsAuthorized
\* ("unchecked": _IsAuthorized was not called)
TargetOutcome(o, auth) ==
  [responses |-> o.responses, calls |-> o.calls, error |-> o.error,
   auth |-> auth]

\* a dispatch that returns without a word for an unrecognized page
DispatchPage_Silent(page, w) ==
  IF page.kind = "StaticPage" THEN ServeStaticPage(w)
  ELSE IF page.kind = "ScriptPage" THEN ServeScriptPage(w)
  ELSE Outcome(<<>>, <<>>, None)

\* the dispatch at the end of RunTargetApp
DispatchPage(page, w) ==
  IF page.kind = "StaticPage" THEN ServeStaticPage(w)
  ELSE IF page.kind = "ScriptPage" THEN ServeScriptPage(w)
  ELSE Outcome(<<>>, <<>>, "NotImplementedError")

\* the start of RunTargetApp: app.yaml is read and parsed; a missing file, a
\* YAMLError and a value that is not a dict each end with a 404 and a return
LoadConfig_Raises(app_yaml) ==
  IF app_yaml.kind = "missing"
  THEN Outcome(<< RespondWithStatus(NOT_FOUND, Plain("no app.yaml file"),
                                    NoUrl) >>,
               <<>>, None)
  ELSE IF app_yaml.kind = "yaml_error"
  THEN Outcome(<<>>, <<"safe_load">>, "YAMLError")
  ELSE IF app_yaml.kind # "dict"
  THEN Outcome(<< RespondWithStatus(NOT_FOUND, Plain("app.yaml invalid"),
                                    NoUrl) >>,
               <<"safe_load">>, None)
  ELSE Outcome(<<>>, <<"safe_load">>, None)

LoadConfig(app_yaml) ==
  IF app_yaml.kind = "missing"
  THEN Outcome(<< RespondWithStatus(NOT_FOUND, Plain("no app.yaml file"),
                                    NoUrl) >>,
               <<>>, None)
  ELSE IF app_yaml.kind = "yaml_error"
  THEN Outcome(<< RespondWithStatus(NOT_FOUND, Plain("app.yaml invalid"),
                                    NoUrl) >>,
               <<"safe_load">>, None)
  ELSE IF app_yaml.kind # "dict"
  THEN Outcome(<< RespondWithStatus(NOT_FOUND, Plain("app.yaml invalid"),
                                    NoUrl) >>,
               <<"safe_load">>, None)
  ELSE Outcome(<<>>, <<"safe_load">>, None)

RunTargetApp(path_info, users_mod, environ, w) ==
  LET app_yaml == w.app_yaml
      config == LoadConfig(app_yaml)
      page == FindPage(app_yaml.handlers, path_info)
  IN IF config.responses # <<>> \/ config.error # None
     THEN TargetOutcome(config, "unchecked")
     ELSE IF page = NoPage
     THEN TargetOutcome(
            Outcome(<< NotFoundResponse(path_info) >>,
                    <<"safe_load", "FindPage">>, None),
            "unchecked")
     ELSE IF /\ page.secure = SECURE_ALWAYS
             /\ ~environ.dev
             /\ w.scheme # "https"
     THEN TargetOutcome(
            Outcome(<< RespondWithStatus(FOUND, Plain(""),
                                         _CurrentUrl(environ, w, TRUE)) >>,
                    <<"safe_load", "FindPage">>, None),
            "unchecked")
     ELSE IF ~_IsAuthorized(page, users_mod, w)
     THEN TargetOutcome(
            Outcome(<< DenyResponse(users_mod, environ, w) >>,
                    <<"safe_load", "FindPage", "_IsAuthorized">>, None),
            "Deny")
     ELSE LET served == DispatchPage(page, w)
          IN TargetOutcome(
               Outcome(served.responses,
                       <<"safe_load", "FindPage", "_IsAuthorized">>
                         \o served.calls,
                       served.error),
               "Allow")

\* ------------------------------------------------------------------------
\* State
\* ------------------------------------------------------------------------

VARIABLES
  pc,                  \* position of the current request inside RunMimic
  os_environ,             \* os.environ of the current request
  dev_appserver_state, \* _dev_appserver_state['project_id'], None: no key
  current_namespace,   \* the namespace_manager's active namespace
  is_control_request,  \* locals of RunMimic
  requires_tree,
  requires_namespace,
  namespace,
  saved_namespace,
  tree,
  project_id,          \* what GetProjectId returned to GetNamespace
  error,               \* the error propagating out of RunMimic, None: none
  events,              \* the calls of this request, in order
  responses,           \* the status codes printed during this request
  entry_namespace,     \* current_namespace when RunMimic was entered
  last_query_id,       \* the id of the latest request resolved through the
                       \* query parameter with sticky enabled
  target,              \* inputs and outcome of a RunTargetApp call
  host_probe           \* a host and what GetProjectIdFromHttpHost made of it

vars ==
  << pc, os_environ, dev_appserver_state, current_namespace, is_control_request,
     requires_tree, requires_namespace, namespace, saved_namespace, tree,
     project_id, error, events, responses, entry_namespace, last_query_id,
     target, host_probe >>

NoEnviron ==
  [PATH_INFO |-> <<>>, HTTP_HOST |-> <<>>, QUERY_STRING |-> <<>>,
   CURRENT_NAMESPACE |-> None, dev |-> FALSE]

NoTarget == [called |-> FALSE]

NoProbe == [called |-> FALSE]

\* namespaces another request handler may have left active
InitialNamespaces == {None, "", "other"}

Init ==
  /\ pc = "idle"
  /\ os_environ = NoEnviron
  /\ dev_appserver_state = None
  /\ current_namespace \in InitialNamespaces
  /\ is_control_request = FALSE
  /\ requires_tree = FALSE
  /\ requires_namespace = FALSE
  /\ namespace = None
  /\ saved_namespace = None
  /\ tree = None
  /\ project_id = None
  /\ error = None
  /\ events = <<>>
  /\ responses = <<>>
  /\ entry_namespace = current_namespace
  /\ last_query_id = None
  /\ target = NoTarget
  /\ host_probe = NoProbe

\* ------------------------------------------------------------------------
\* RunMimic, one action per block of the function
\* ------------------------------------------------------------------------

\* Classify asking for a namespace on every control path
Classify_AlwaysNamespace(env) ==
  /\ pc = "idle"
  /\ os_environ' = env
  /\ is_control_request' = StartsWith(env.PATH_INFO, CONTROL_PREFIX)
  /\ requires_tree' =
       IF StartsWith(env.PATH_INFO, CONTROL_PREFIX)
       THEN ControlRequestRequiresTree(env.PATH_INFO) ELSE TRUE
  /\ requires_namespace' = TRUE
  /\ entry_namespace' = current_namespace
  /\ pc' = "namespace"
  /\ UNCHANGED << dev_appserver_state, current_namespace, namespace,
                  saved_namespace, tree, project_id, error, events, responses,
                  last_query_id, target, host_probe >>

\* a request arrives: RunMimic classifies it by PATH_INFO
Classify(env) ==
  /\ pc = "idle"
  /\ os_environ' = env
  /\ is_control_request' = StartsWith(env.PATH_INFO, CONTROL_PREFIX)
  /\ requires_tree' =
       IF StartsWith(env.PATH_INFO, CONTROL_PREFIX)
       THEN ControlRequestRequiresTree(env.PATH_INFO) ELSE TRUE
  /\ requires_namespace' =
       IF StartsWith(env.PATH_INFO, CONTROL_PREFIX)
       THEN ControlRequestRequiresNamespace(env.PATH_INFO) ELSE TRUE
  /\ entry_namespace' = current_namespace
  /\ pc' = "namespace"
  /\ UNCHANGED << dev_appserver_state, current_namespace, namespace,
                  saved_namespace, tree, project_id, error, events, responses,
                  last_query_id, target, host_probe >>

\* the request was resolved through the query-parameter source
ResolvedByQuery(env) ==
  /\ ~Truthy(env.CURRENT_NAMESPACE)
  /\ Truthy(GetProjectIdFromQueryParam(env))

\* GetNamespace called inside the try block: a validation error runs the
\* finally clause
GetNamespace_InTry ==
  /\ pc = "namespace"
  /\ IF requires_namespace
     THEN LET r == GetProjectId(os_environ, os_environ.dev, dev_appserver_state)
              ns == OrEmpty(r.project_id)
          IN /\ dev_appserver_state' = r.state
             /\ project_id' = r.project_id
             /\ last_query_id' =
                  IF ResolvedByQuery(os_environ) /\ os_environ.dev
                  THEN GetProjectIdFromQueryParam(os_environ)
                  ELSE last_query_id
             /\ events' = events \o <<"GetProjectId", "validate_namespace">>
             /\ IF validate_namespace(ns)
                THEN /\ namespace' = ns
                     /\ error' = error
                     /\ pc' = "scope"
                ELSE /\ namespace' = namespace
                     /\ error' = "BadValueError"
                     /\ pc' = "finally"
     ELSE /\ namespace' = None
          /\ pc' = "scope"
          /\ UNCHANGED << dev_appserver_state, project_id, last_query_id,
                          events, error >>
  /\ UNCHANGED << os_environ, current_namespace, is_control_request,
                  requires_tree, requires_namespace, saved_namespace, tree,
                  responses, entry_namespace, target, host_probe >>

\* GetNamespace remembering the query's id only once it is validated
GetNamespace_RememberValidated ==
  /\ pc = "namespace"
  /\ IF requires_namespace
     THEN LET r == GetProjectId(os_environ, os_environ.dev, dev_appserver_state)
              ns == OrEmpty(r.project_id)
          IN /\ project_id' = r.project_id
             /\ last_query_id' =
                  IF ResolvedByQuery(os_environ) /\ os_environ.dev
                  THEN GetProjectIdFromQueryParam(os_environ)
                  ELSE last_query_id
             /\ events' = events \o <<"GetProjectId", "validate_namespace">>
             /\ IF validate_namespace(ns)
                THEN /\ dev_appserver_state' = r.state
                     /\ namespace' = ns
                     /\ error' = error
                     /\ pc' = "scope"
                ELSE /\ dev_appserver_state' = dev_appserver_state
                     /\ namespace' = namespace
                     /\ error' = "BadValueError"
                     /\ pc' = "done"
     ELSE /\ namespace' = None
          /\ pc' = "scope"
          /\ UNCHANGED << dev_appserver_state, project_id, last_query_id,
                          events, error >>
  /\ UNCHANGED << os_environ, current_namespace, is_control_request,
                  requires_tree, requires_namespace, saved_namespace, tree,
                  responses, entry_namespace, target, host_probe >>

\* namespace = GetNamespace(), or None when no namespace is required
GetNamespace ==
  /\ pc = "namespace"
  /\ IF requires_namespace
     THEN LET r == GetProjectId(os_environ, os_environ.dev, dev_appserver_state)
              ns == OrEmpty(r.project_id)
          IN /\ dev_appserver_state' = r.state
             /\ project_id' = r.project_id
             /\ last_query_id' =
                  IF ResolvedByQuery(os_environ) /\ os_environ.dev
                  THEN GetProjectIdFromQueryParam(os_environ)
                  ELSE last_query_id
             /\ IF validate_namespace(ns)
                THEN /\ namespace' = ns
                     /\ events' = events \o <<"GetProjectId", "validate_namespace">>
                     /\ error' = error
                     /\ pc' = "scope"
                ELSE /\ namespace' = namespace
                     /\ events' = events \o <<"GetProjectId", "validate_namespace">>
                     /\ error' = "BadValueError"
                     /\ pc' = "done"
     ELSE /\ namespace' = None
          /\ pc' = "scope"
          /\ UNCHANGED << dev_appserver_state, project_id, last_query_id,
                          events, error >>
  /\ UNCHANGED << os_environ, current_namespace, is_control_request,
                  requires_tree, requires_namespace, saved_namespace, tree,
                  responses, entry_namespace, target, host_probe >>

\* saved_namespace = get_namespace(); set_namespace(namespace)
EstablishScope ==
  /\ pc = "scope"
  /\ saved_namespace' = get_namespace(current_namespace)
  /\ current_namespace' = set_namespace(namespace)
  /\ events' = events \o <<"get_namespace", "set_namespace">>
  /\ pc' = "tree"
  /\ UNCHANGED << os_environ, dev_appserver_state, is_control_request,
                  requires_tree, requires_namespace, namespace, tree,
                  project_id, error, responses, entry_namespace,
                  last_query_id, target, host_probe >>

\* tree = create_tree_func(namespace, access_key), which may raise
CreateTree(raises) ==
  /\ pc = "tree"
  /\ IF requires_tree
     THEN /\ events' = events \o <<"create_tree_func">>
          /\ IF raises
             THEN /\ error' = "TreeError"
                  /\ tree' = tree
                  /\ pc' = "finally"
             ELSE /\ error' = error
                  /\ tree' = "tree"
                  /\ pc' = "dispatch"
     ELSE /\ ~raises
          /\ tree' = None
          /\ pc' = "dispatch"
          /\ UNCHANGED << events, error >>
  /\ UNCHANGED << os_environ, dev_appserver_state, current_namespace,
                  is_control_request, requires_tree, requires_namespace,
                  namespace, saved_namespace, project_id, responses,
                  entry_namespace, last_query_id, target, host_probe >>

\* RunControlApp outside the try block: an error skips the finally clause
RunControlApp_NoFinally(raises) ==
  /\ pc = "dispatch"
  /\ is_control_request
  /\ events' = events \o <<"MakeControlApp">>
  /\ responses' = IF raises THEN responses ELSE responses \o <<OK>>
  /\ error' = IF raises THEN "ControlError" ELSE error
  /\ pc' = IF raises THEN "done" ELSE "finally"
  /\ UNCHANGED << os_environ, dev_appserver_state, current_namespace,
                  is_control_request, requires_tree, requires_namespace,
                  namespace, saved_namespace, tree, project_id,
                  entry_namespace, last_query_id, target, host_probe >>

\* run_wsgi_app(control.MakeControlApp(tree, namespace))
RunControlApp(raises) ==
  /\ pc = "dispatch"
  /\ is_control_request
  /\ events' = events \o <<"MakeControlApp">>
  /\ responses' = IF raises THEN responses ELSE responses \o <<OK>>
  /\ error' = IF raises THEN "ControlError" ELSE error
  /\ pc' = "finally"
  /\ UNCHANGED << os_environ, dev_appserver_state, current_namespace,
                  is_control_request, requires_tree, requires_namespace,
                  namespace, saved_namespace, tree, project_id,
                  entry_namespace, last_query_id, target, host_probe >>

\* run_wsgi_app(shell.MakeShellApp(tree, namespace))
RunShellApp(raises) ==
  /\ pc = "dispatch"
  /\ ~is_control_request
  /\ StartsWith(os_environ.PATH_INFO, SHELL_PREFIX)
  /\ events' = events \o <<"MakeShellApp">>
  /\ responses' = IF raises THEN responses ELSE responses \o <<OK>>
  /\ error' = IF raises THEN "ShellError" ELSE error
  /\ pc' = "finally"
  /\ UNCHANGED << os_environ, dev_appserver_state, current_namespace,
                  is_control_request, requires_tree, requires_namespace,
                  namespace, saved_namespace, tree, project_id,
                  entry_namespace, last_query_id, target, host_probe >>

Statuses(rs) == [i \in 1..Len(rs) |-> rs[i].status]

\* what RunMimic sees of a RunTargetApp call: the status lines printed, the
\* calls made and the error raised
TargetSummary(r) ==
  [statuses |-> Statuses(r.responses), calls |-> r.calls, error |-> r.error]

\* every outcome RunTargetApp can have for a path and a deployment mode, over
\* all answers of the tree, the users module and the script runner
TargetOutcomes ==
  { [path_info |-> path_info, dev |-> dev,
     summary |-> TargetSummary(
       RunTargetApp(path_info, w.user,
                    [NoEnviron EXCEPT !.PATH_INFO = path_info, !.dev = dev],
                    w))] : path_info \in Paths, dev \in DevModes, w \in Worlds }

\* RunTargetApp outside the try block: an error skips the finally clause
RunTarget_NoFinally ==
  /\ pc = "dispatch"
  /\ ~is_control_request
  /\ ~StartsWith(os_environ.PATH_INFO, SHELL_PREFIX)
  /\ \E r \in TargetOutcomes :
        /\ r.path_info = os_environ.PATH_INFO
        /\ r.dev = os_environ.dev
        /\ events' = events \o <<"RunTargetApp">> \o r.summary.calls
        /\ responses' = responses \o r.summary.statuses
        /\ error' = r.summary.error
        /\ pc' = IF r.summary.error # None THEN "done" ELSE "finally"
  /\ UNCHANGED << os_environ, dev_appserver_state, current_namespace,
                  is_control_request, requires_tree, requires_namespace,
                  namespace, saved_namespace, tree, project_id,
                  entry_namespace, last_query_id, target, host_probe >>

\* RunTargetApp reached by "if" instead of "elif": shell paths run it too
RunTarget_NoShellGuard ==
  /\ pc = "dispatch"
  /\ ~is_control_request
  /\ \E r \in TargetOutcomes :
        /\ r.path_info = os_environ.PATH_INFO
        /\ r.dev = os_environ.dev
        /\ events' = events \o <<"RunTargetApp">> \o r.summary.calls
        /\ responses' = responses \o r.summary.statuses
        /\ error' = r.summary.error
  /\ pc' = "finally"
  /\ UNCHANGED << os_environ, dev_appserver_state, current_namespace,
                  is_control_request, requires_tree, requires_namespace,
                  namespace, saved_namespace, tree, project_id,
                  entry_namespace, last_query_id, target, host_probe >>

\* RunTargetApp(tree, path_info, namespace, users_mod)
RunTarget ==
  /\ pc = "dispatch"
  /\ ~is_control_request
  /\ ~StartsWith(os_environ.PATH_INFO, SHELL_PREFIX)
  /\ \E r \in TargetOutcomes :
        /\ r.path_info = os_environ.PATH_INFO
        /\ r.dev = os_environ.dev
        /\ events' = events \o <<"RunTargetApp">> \o r.summary.calls
        /\ responses' = responses \o r.summary.statuses
        /\ error' = r.summary.error
  /\ pc' = "finally"
  /\ UNCHANGED << os_environ, dev_appserver_state, current_namespace,
                  is_control_request, requires_tree, requires_namespace,
                  namespace, saved_namespace, tree, project_id,
                  entry_namespace, last_query_id, target, host_probe >>

\* finally: set_namespace(saved_namespace)
Finally ==
  /\ pc = "finally"
  /\ current_namespace' = set_namespace(saved_namespace)
  /\ events' = events \o <<"restore_namespace">>
  /\ pc' = "done"
  /\ UNCHANGED << os_environ, dev_appserver_state, is_control_request,
                  requires_tree, requires_namespace, namespace,
                  saved_namespace, tree, project_id, error, responses,
                  entry_namespace, last_query_id, target, host_probe >>

\* RunMimic has returned or raised; its locals are gone and the process
\* waits for the next request
Return ==
  /\ pc = "done"
  /\ pc' = "idle"
  /\ os_environ' = NoEnviron
  /\ is_control_request' = FALSE
  /\ requires_tree' = FALSE
  /\ requires_namespace' = FALSE
  /\ namespace' = None
  /\ saved_namespace' = None
  /\ tree' = None
  /\ project_id' = None
  /\ error' = None
  /\ events' = <<>>
  /\ responses' = <<>>
  /\ entry_namespace' = current_namespace
  /\ UNCHANGED << dev_appserver_state, current_namespace, last_query_id,
                  target, host_probe >>

Next ==
  \/ \E env \in Environs : Classify(env)
  \/ GetNamespace
  \/ EstablishScope
  \/ \E raises \in BOOLEAN : CreateTree(raises)
  \/ \E raises \in BOOLEAN : RunControlApp(raises)
  \/ \E raises \in BOOLEAN : RunShellApp(raises)
  \/ RunTarget
  \/ Finally
  \/ Return

Spec == Init /\ [][Next]_vars

\* ------------------------------------------------------------------------
\* RunTargetApp on its own: one call with every input recorded
\* ------------------------------------------------------------------------

TargetEnvirons ==
  [ PATH_INFO : { <<"/">>, <<"/main">> },
    HTTP_HOST : { <<"localhost", ":", "8080">>,
                  <<"proj1", "-dot-", "your-app-id", ".", "appspot", ".", "com",
                    ":", "443">> },
    QUERY_STRING : { <<>>, << <<"project", "q1">> >> },
    CURRENT_NAMESPACE : {None},
    dev : DevModes ]

CallRunTargetApp ==
  /\ pc = "idle"
  /\ ~target.called
  /\ \E env \in TargetEnvirons, w \in Worlds :
       target' = [called |-> TRUE, environ |-> env, w |-> w,
                  page |-> FindPage(w.app_yaml.handlers, env.PATH_INFO),
                  outcome |-> RunTargetApp(env.PATH_INFO, w.user, env, w)]
  /\ UNCHANGED << pc, os_environ, dev_appserver_state, current_namespace,
                  is_control_request, requires_tree, requires_namespace,
                  namespace, saved_namespace, tree, project_id, error, events,
                  responses, entry_namespace, last_query_id, host_probe >>

NextTarget == CallRunTargetApp

SpecTarget == Init /\ [][NextTarget]_vars

\* ------------------------------------------------------------------------
\* GetProjectIdFromHttpHost on its own: one call on a host put together
\* from labels, delimiters and a port
\* ------------------------------------------------------------------------

\* the most labels a host has
MaxLabels == 4

\* the labels of a host; '' is an empty label, as in '.appspot.com'
HostLabels ==
  {"", "proj1", "your-app-id", "appspot", "com", "localhost", "127"}

HostDelimiters == {".", "-dot-"}

\* the port of a host, '' when it has none
HostPorts == {"", "8080"}

\* labels joined by the delimiters between them
RECURSIVE JoinLabels(_, _)
JoinLabels(labels, delims) ==
  IF labels = <<>> THEN <<>>
  ELSE (IF Head(labels) = "" THEN <<>> ELSE << Head(labels) >>)
       \o (IF delims = <<>> THEN <<>>
           ELSE << Head(delims) >> \o JoinLabels(Tail(labels), Tail(delims)))

\* the HTTP_HOST of the labels, the delimiters and the port
BuildHost(labels, delims, port) ==
  JoinLabels(labels, delims) \o (IF port = "" THEN <<>> ELSE <<":", port>>)

CallGetProjectIdFromHttpHost ==
  /\ pc = "idle"
  /\ ~host_probe.called
  /\ \E n \in 1..MaxLabels :
       \E labels \in [1..n -> HostLabels],
          delims \in [1..(n - 1) -> HostDelimiters],
          port \in HostPorts :
         LET host == BuildHost(labels, delims, port)
         IN host_probe' =
              [called |-> TRUE, labels |-> labels, delims |-> delims,
               port |-> port, host |-> host,
               result |-> GetProjectIdFromHttpHost(
                            [PATH_INFO |-> <<"/">>, HTTP_HOST |-> host,
                             QUERY_STRING |-> <<>>,
                             CURRENT_NAMESPACE |-> None, dev |-> FALSE])]
  /\ UNCHANGED << pc, os_environ, dev_appserver_state, current_namespace,
                  is_control_request, requires_tree, requires_namespace,
                  namespace, saved_namespace, tree, project_id, error, events,
                  responses, entry_namespace, last_query_id, target >>

NextHost == CallGetProjectIdFromHttpHost

SpecHost == Init /\ [][NextHost]_vars

\* ------------------------------------------------------------------------
\* Properties
\* ------------------------------------------------------------------------

Count(seq, x) == Cardinality({i \in DOMAIN seq : seq[i] = x})

Called(x) == \E i \in DOMAIN events : events[i] = x

Delegates == {"MakeControlApp", "MakeShellApp", "RunTargetApp"}

IsDelegate(e) == e \in Delegates

DelegateEvents == SelectSeq(events, IsDelegate)

\* RunMimic is over: it returned or an error propagated out of it
Finished == pc = "done"

\* the resolved tenant id of the current request failed validate_namespace
ValidationFailed ==
  /\ requires_namespace
  /\ Called("validate_namespace")
  /\ ~validate_namespace(OrEmpty(project_id))

C2_TeardownOnceAlways ==
  Finished => Count(events, "restore_namespace") = 1

\* C2 amended: the restoring set_namespace call runs exactly once on every
\* request whose namespace step succeeds, whatever happens afterwards, and
\* not at all on a request whose resolved tenant id fails validation.
C2_TeardownOnceAfterScope ==
  /\ Count(events, "restore_namespace") <= 1
  /\ Finished =>
       Count(events, "restore_namespace") = IF ValidationFailed THEN 0 ELSE 1

\* a request that ended with the tree factory's error, after one teardown
C2_Witness ==
  /\ Finished
  /\ error = "TreeError"
  /\ Count(events, "restore_namespace") = 1

\* C3: GetProjectId returns the first non-empty source in the order header,
\* query parameter, path, host.
C3_Precedence ==
  Called("GetProjectId") =>
    LET header == os_environ.CURRENT_NAMESPACE
        query == GetProjectIdFromQueryParam(os_environ)
        path == GetProjectIdFromPathInfo(os_environ)
        host == GetProjectIdFromHttpHost(os_environ)
    IN /\ Truthy(header) => project_id = header
       /\ (~Truthy(header) /\ Truthy(query)) => project_id = query
       /\ (~Truthy(header) /\ ~Truthy(query) /\ Truthy(path)) =>
            project_id = path
       /\ (~Truthy(header) /\ ~Truthy(query) /\ ~Truthy(path) /\ Truthy(host)) =>
            project_id = host

\* a request with a query-parameter id and a different host-derived id, an
\* empty header and no path id, resolved to the query-parameter id
C3_Witness ==
  /\ Called("GetProjectId")
  /\ os_environ.CURRENT_NAMESPACE = ""
  /\ GetProjectIdFromQueryParam(os_environ) = "q2"
  /\ GetProjectIdFromPathInfo(os_environ) = None
  /\ GetProjectIdFromHttpHost(os_environ) = "proj1"
  /\ project_id = "q2"

\* none of the four sources of the current request yields a value
NoSignal ==
  /\ ~Truthy(os_environ.CURRENT_NAMESPACE)
  /\ ~Truthy(GetProjectIdFromQueryParam(os_environ))
  /\ ~Truthy(GetProjectIdFromPathInfo(os_environ))
  /\ ~Truthy(GetProjectIdFromHttpHost(os_environ))

\* C4: after a request resolved T from the query parameter with sticky
\* enabled, a later request without any signal gets T (the latest such id)
\* when sticky is enabled and None when it is disabled.
C4_StickyFallback ==
  (Called("GetProjectId") /\ NoSignal /\ last_query_id # None) =>
    /\ os_environ.dev => project_id = last_query_id
    /\ ~os_environ.dev => project_id = None

\* C8: a tenant id that fails validation ends the request with the
\* validation error before the namespace is read or set and before the tree
\* is created; nothing is printed and the active namespace is untouched.
C8_ValidationFailsFirst ==
  error = "BadValueError" =>
    /\ Finished
    /\ ~Called("get_namespace")
    /\ ~Called("set_namespace")
    /\ ~Called("restore_namespace")
    /\ ~Called("create_tree_func")
    /\ DelegateEvents = <<>>
    /\ tree = None
    /\ responses = <<>>
    /\ current_namespace = entry_namespace

\* a request with an invalid tenant id that came in under namespace "other"
C8_Witness ==
  /\ error = "BadValueError"
  /\ project_id = BadProjectId
  /\ entry_namespace = "other"

\* the current request is a control request
IsControl == StartsWith(os_environ.PATH_INFO, CONTROL_PREFIX)

\* what C9 says of control requests: no resolution and no validation on a
\* path that needs no namespace, no tree factory call on a path that needs
\* no tree
C9_ControlPart ==
  /\ (pc # "idle" /\ IsControl
        /\ ~ControlRequestRequiresNamespace(os_environ.PATH_INFO)) =>
       /\ ~Called("GetProjectId")
       /\ ~Called("validate_namespace")
       /\ error # "BadValueError"
       /\ project_id = None
  /\ (pc # "idle" /\ IsControl
        /\ ~ControlRequestRequiresTree(os_environ.PATH_INFO)) =>
       ~Called("create_tree_func")

\* C9 as stated: the control part, and every non-control request resolves
\* the tenant and creates the tree.
C9_ControlSkipsOthersAlways ==
  /\ C9_ControlPart
  /\ (Finished /\ ~IsControl) =>
       /\ Called("GetProjectId")
       /\ Called("create_tree_func")

\* C9 amended: the control part, and every non-control request resolves the
\* tenant and, unless the resolved id fails validation, calls the tree
\* factory.
C9_ControlSkipsOthersResolve ==
  /\ C9_ControlPart
  /\ (pc \notin {"idle", "namespace"} /\ ~IsControl) => Called("GetProjectId")
  /\ (Finished /\ ~IsControl) =>
       (Called("create_tree_func") <=> ~ValidationFailed)

\* a control request on a path needing neither namespace nor tree, carrying
\* an invalid tenant id in its query string, that ended without error
C9_Witness ==
  /\ Finished
  /\ os_environ.PATH_INFO = <<"/_ah/mimic", "/version_id">>
  /\ GetProjectIdFromQueryParam(os_environ) = BadProjectId
  /\ error = None
  /\ responses = <<OK>>

\* the delegate RunMimic picks for a path
RequestClass(path_info) ==
  IF StartsWith(path_info, CONTROL_PREFIX) THEN "MakeControlApp"
  ELSE IF StartsWith(path_info, SHELL_PREFIX) THEN "MakeShellApp"
  ELSE "RunTargetApp"

\* C10 as stated: every request that passes scope establishment invokes
\* exactly one delegate, the one of its path prefix.
C10_OneDelegateAfterScope ==
  (pc \in {"finally", "done"} /\ Called("set_namespace")) =>
    DelegateEvents = << RequestClass(os_environ.PATH_INFO) >>

\* C10 amended: no request invokes two delegates or a delegate other than
\* the one of its path prefix, and every request that passes scope
\* establishment and whose tree factory does not raise invokes exactly that
\* one.
C10_OneDelegateAfterTree ==
  /\ Len(DelegateEvents) <= 1
  /\ DelegateEvents # <<>> =>
       DelegateEvents = << RequestClass(os_environ.PATH_INFO) >>
  /\ (pc \in {"finally", "done"} /\ Called("set_namespace")
        /\ error # "TreeError") =>
       DelegateEvents = << RequestClass(os_environ.PATH_INFO) >>

\* a shell request that carried a tenant id and ran the shell app only
C10_Witness ==
  /\ Finished
  /\ os_environ.PATH_INFO \in ShellPaths
  /\ project_id = "q1"
  /\ DelegateEvents = <<"MakeShellApp">>

\* ---- RunTargetApp ----

\* _IsAuthorized was called in the recorded RunTargetApp call
AuthChecked == target.called /\ target.outcome.auth # "unchecked"

\* the request carries a task queue or cron marker
SystemOriginated == Truthy(target.w.queue) \/ Truthy(target.w.cron)

\* C5: with a task queue or cron marker, _IsAuthorized allows the request
\* for every login rule and every caller.
C5_SystemRequestsAllowed ==
  (AuthChecked /\ SystemOriginated) => target.outcome.auth = "Allow"

\* an anonymous task queue request to an admin-only page, allowed
C5_Witness ==
  /\ AuthChecked
  /\ target.w.queue = "default"
  /\ target.w.cron = None
  /\ target.w.user = "anonymous"
  /\ target.page.login = LOGIN_ADMIN
  /\ target.outcome.auth = "Allow"

\* C6: without such a marker, _IsAuthorized allows exactly when the page
\* needs no login, or the caller is an admin, or the page needs a login and
\* the caller is logged in.
C6_DecisionTable ==
  (AuthChecked /\ ~SystemOriginated) =>
    (target.outcome.auth = "Allow" <=>
       \/ target.page.login = LOGIN_NONE
       \/ target.w.user = "admin"
       \/ (target.page.login = LOGIN_REQUIRED /\ target.w.user # "anonymous"))

\* a logged-in non-admin caller denied on an admin-only page
C6_Witness ==
  /\ AuthChecked
  /\ ~SystemOriginated
  /\ target.page.login = LOGIN_ADMIN
  /\ target.w.user = "user"
  /\ target.outcome.auth = "Deny"

\* the recorded call meets the secure redirect's condition
SecureRedirectCase ==
  /\ target.called
  /\ target.w.app_yaml.kind = "dict"
  /\ target.page # NoPage
  /\ target.page.secure = SECURE_ALWAYS
  /\ ~target.environ.dev
  /\ target.w.scheme # "https"

\* C7: a SecureAlways page in production over a non-https scheme gets one
\* 302 response whose Location is the request's URL with the https scheme,
\* and neither _IsAuthorized nor a page handler is called.
C7_SecureRedirect ==
  SecureRedirectCase =>
    LET o == target.outcome
    IN /\ Len(o.responses) = 1
       /\ o.responses[1].status = FOUND
       /\ o.responses[1].location.scheme = "https"
       /\ o.responses[1].location.host = target.environ.HTTP_HOST
       /\ o.responses[1].location.path = target.environ.PATH_INFO
       /\ o.responses[1].location.query = target.environ.QUERY_STRING
       /\ o.responses[1].location.has_query
            = (target.environ.QUERY_STRING # <<>>)
       /\ o.error = None
       /\ o.auth = "unchecked"
       /\ \A i \in DOMAIN o.calls :
            o.calls[i] \notin {"_IsAuthorized", "ServeStaticPage",
                               "ServeScriptPage", "RunScript"}

\* an anonymous http request with a query string to an admin-only
\* SecureAlways script page in production, redirected
C7_Witness ==
  /\ SecureRedirectCase
  /\ target.w.user = "anonymous"
  /\ target.page.login = LOGIN_ADMIN
  /\ target.page.kind = "ScriptPage"
  /\ target.environ.QUERY_STRING # <<>>
  /\ target.outcome.responses[1].status = FOUND

\* the recorded call found app.yaml missing, unparsable or not a dict
ConfigUnusable ==
  target.called /\ target.w.app_yaml.kind \in {"missing", "yaml_error", "not_dict"}

\* C11: when app.yaml is missing, fails to parse or parses to something
\* other than a dict, RunTargetApp prints one 404 response and returns
\* without an error, and FindPage, _IsAuthorized and the page handlers are
\* not called.
C11_ConfigUnusable404 ==
  ConfigUnusable =>
    LET o == target.outcome
    IN /\ Len(o.responses) = 1
       /\ o.responses[1].status = NOT_FOUND
       /\ o.error = None
       /\ o.auth = "unchecked"
       /\ \A i \in DOMAIN o.calls :
            o.calls[i] \notin {"FindPage", "_IsAuthorized", "ServeStaticPage",
                               "ServeScriptPage", "RunScript"}

\* an app.yaml that fails to parse, answered with a 404
C11_Witness ==
  /\ target.called
  /\ target.w.app_yaml.kind = "yaml_error"
  /\ target.outcome.responses[1].status = NOT_FOUND
  /\ target.outcome.error = None

\* _IsAuthorized answered False in the recorded call
Denied == target.called /\ target.outcome.auth = "Deny"

\* a page handler was called in the recorded call
Dispatched ==
  /\ target.called
  /\ \E i \in DOMAIN target.outcome.calls :
       target.outcome.calls[i] \in {"ServeStaticPage", "ServeScriptPage",
                                    "RunScript"}

\* the URL of the recorded request, as _CurrentUrl() builds it
IsCurrentUrl(url) ==
  /\ url.scheme = target.w.scheme
  /\ url.host = target.environ.HTTP_HOST
  /\ url.path = target.environ.PATH_INFO
  /\ url.query = target.environ.QUERY_STRING
  /\ url.has_query = (target.environ.QUERY_STRING # <<>>)

\* C12: when _IsAuthorized denies, RunTargetApp prints one 403 response and
\* calls no page handler; the response carries a login link for an anonymous
\* caller and a logout link with the caller's nickname for a logged-in one,
\* both leading to the current request URL; a page handler is called only
\* after _IsAuthorized allowed.
C12_DenyResponse ==
  /\ Denied =>
       LET o == target.outcome
           data == o.responses[1].data
       IN /\ Len(o.responses) = 1
          /\ o.responses[1].status = FORBIDDEN
          /\ o.error = None
          /\ ~Dispatched
          /\ IsCurrentUrl(data.url)
          /\ target.w.user = "anonymous" =>
               (data.text = "login" /\ data.name = "")
          /\ target.w.user # "anonymous" =>
               (data.text = "logout" /\ data.name = target.w.user)
  /\ Dispatched => target.outcome.auth = "Allow"

\* a logged-in non-admin caller denied on an admin-only page of a request
\* with a query string, offered the logout link under their nickname
C12_Witness ==
  /\ Denied
  /\ target.w.user = "user"
  /\ target.page.login = LOGIN_ADMIN
  /\ target.environ.QUERY_STRING # <<>>
  /\ target.outcome.responses[1].data.text = "logout"
  /\ target.outcome.responses[1].data.name = "user"

\* FindPage found no page for the path of the recorded call
Unmatched ==
  /\ target.called
  /\ target.w.app_yaml.kind = "dict"
  /\ target.page = NoPage

\* C16: when FindPage finds no page for the path, RunTargetApp prints one
\* 404 response that names the path and returns; there is no redirect,
\* _IsAuthorized is not called and no page handler is called.
C16_UnmatchedPath404 ==
  Unmatched =>
    LET o == target.outcome
    IN /\ Len(o.responses) = 1
       /\ o.responses[1].status = NOT_FOUND
       /\ o.responses[1].data = NotFoundPage(target.environ.PATH_INFO)
       /\ o.responses[1].location = NoUrl
       /\ o.error = None
       /\ o.auth = "unchecked"
       /\ ~Dispatched

\* a production http request for /main, for which app.yaml has no handler
C16_Witness ==
  /\ Unmatched
  /\ target.environ.PATH_INFO = <<"/main">>
  /\ ~target.environ.dev
  /\ target.w.scheme = "http"
  /\ target.outcome.responses[1].data.path = <<"/main">>

\* FindPage returned a page that is neither a StaticPage nor a ScriptPage
UnrecognizedPage ==
  /\ target.called
  /\ target.w.app_yaml.kind = "dict"
  /\ target.page # NoPage
  /\ target.page.kind = "OtherPage"

\* C15 as stated: every request whose page is neither static nor script ends
\* with an error raised to the caller of RunTargetApp and no response.
C15_UnrecognizedAlwaysRaises ==
  UnrecognizedPage =>
    /\ target.outcome.error = "NotImplementedError"
    /\ target.outcome.responses = <<>>

\* C15, amended: a request whose page is neither static nor script is never
\* given to a page handler and never answered with a 200; it ends with
\* NotImplementedError raised to the caller when it passes the secure
\* redirect and _IsAuthorized, with the 302 when the redirect applies, and
\* with the 403 when _IsAuthorized denies.
C15_UnrecognizedNeverServed ==
  UnrecognizedPage =>
    LET o == target.outcome
    IN /\ ~Dispatched
       /\ \A i \in DOMAIN o.responses : o.responses[i].status # OK
       /\ IF SecureRedirectCase
          THEN /\ o.error = None
               /\ Len(o.responses) = 1
               /\ o.responses[1].status = FOUND
          ELSE IF o.auth = "Deny"
          THEN /\ o.error = None
               /\ Len(o.responses) = 1
               /\ o.responses[1].status = FORBIDDEN
          ELSE /\ o.auth = "Allow"
               /\ o.error = "NotImplementedError"
               /\ o.responses = <<>>

\* an admin's https request to an unrecognized page, ended by the error
C15_Witness ==
  /\ UnrecognizedPage
  /\ target.w.user = "admin"
  /\ target.w.scheme = "https"
  /\ target.outcome.auth = "Allow"
  /\ target.outcome.error = "NotImplementedError"

\* the recorded call returned without an error and without env.RunScript
ReturnedWithoutScript ==
  /\ target.called
  /\ target.outcome.error = None
  /\ \A i \in DOMAIN target.outcome.calls :
       target.outcome.calls[i] # "RunScript"

\* the status RunTargetApp answers with when it does not run a script
ExpectedStatus ==
  IF ConfigUnusable \/ Unmatched THEN NOT_FOUND
  ELSE IF SecureRedirectCase THEN FOUND
  ELSE IF target.outcome.auth = "Deny" THEN FORBIDDEN
  ELSE IF target.w.file_data = None THEN NOT_FOUND
  ELSE OK

\* C19: every call of RunTargetApp that returns without an error and
\* without reaching env.RunScript prints exactly one response: 404 for a
\* missing or malformed app.yaml, a path without a page or an absent static
\* file, 302 for the secure redirect, 403 for a denied caller, 200 for a
\* served static file.
C19_ExactlyOneResponse ==
  ReturnedWithoutScript =>
    /\ Len(target.outcome.responses) = 1
    /\ target.outcome.responses[1].status = ExpectedStatus
    /\ (~ConfigUnusable /\ ~Unmatched /\ ~SecureRedirectCase
          /\ target.outcome.auth # "Deny") => target.page.kind = "StaticPage"

\* an allowed request for a static page whose file is absent: one 404
C19_Witness ==
  /\ ReturnedWithoutScript
  /\ target.outcome.auth = "Allow"
  /\ target.page.kind = "StaticPage"
  /\ target.w.file_data = None
  /\ Len(target.outcome.responses) = 1
  /\ target.outcome.responses[1].status = NOT_FOUND

\* the step of RunMimic that calls GetProjectId
ResolutionStep == pc = "namespace" /\ requires_namespace

\* C13: _dev_appserver_state['project_id'] changes only in a request that
\* is resolved through the query parameter in the development server, which
\* sets it to that request's query-parameter id; every other step leaves it
\* alone, so it is always unset or the query-parameter id of the latest such
\* request.
C13_SlotChangesOnlyByQuery ==
  /\ [][ dev_appserver_state' # dev_appserver_state =>
           /\ ResolutionStep
           /\ os_environ.dev
           /\ ResolvedByQuery(os_environ)
           /\ dev_appserver_state' = GetProjectIdFromQueryParam(os_environ)
       ]_vars
  /\ [](dev_appserver_state = last_query_id)

\* a development-server request resolved through the namespace header
\* although its query names a project, with another id remembered before
C13_Witness ==
  /\ Called("GetProjectId")
  /\ os_environ.dev
  /\ os_environ.CURRENT_NAMESPACE = "ns1"
  /\ Truthy(GetProjectIdFromQueryParam(os_environ))
  /\ project_id = "ns1"
  /\ dev_appserver_state = "q2"
  /\ GetProjectIdFromQueryParam(os_environ) = "q1"

\* C14 as stated: after a development-server request that resolved an id
\* from any source, _dev_appserver_state['project_id'] holds that id.
C14_SlotHoldsLatestDiscovery ==
  [][ (ResolutionStep /\ os_environ.dev /\ ~NoSignal) =>
        dev_appserver_state' = project_id' ]_vars

\* C14, amended: each development-server request resolved through the query
\* parameter overwrites _dev_appserver_state['project_id'] with its id, and
\* a request resolved through another source or through the remembered id
\* keeps the value it found.
C14_SlotOverwrittenByQueryOnly ==
  [][ (ResolutionStep /\ os_environ.dev) =>
        dev_appserver_state' =
          IF ResolvedByQuery(os_environ)
          THEN GetProjectIdFromQueryParam(os_environ)
          ELSE dev_appserver_state ]_vars

\* a development-server request resolved through the query parameter, its
\* id remembered
C14_Witness ==
  /\ Called("GetProjectId")
  /\ os_environ.dev
  /\ ResolvedByQuery(os_environ)
  /\ project_id = "q2"
  /\ dev_appserver_state = "q2"

\* the values _dev_appserver_state['project_id'] can have been left with by
\* earlier requests (None: no such key)
SlotValues == {None, "q1", "q2", BadProjectId}

\* C18: in production (use_sticky_project_id False) GetProjectId returns,
\* for the same request, the same id whatever earlier requests left in
\* _dev_appserver_state, and it does not write _dev_appserver_state.
C18_NoCrossRequestState ==
  /\ []( (Called("GetProjectId") /\ ~os_environ.dev) =>
           \A s \in SlotValues :
             GetProjectId(os_environ, FALSE, s).project_id = project_id )
  /\ [][ (ResolutionStep /\ ~os_environ.dev) =>
           dev_appserver_state' = dev_appserver_state ]_vars

\* a production request without any signal, after a development-server
\* request left q1 behind: q1 is not returned and stays where it is
C18_Witness ==
  /\ Called("GetProjectId")
  /\ ~os_environ.dev
  /\ NoSignal
  /\ dev_appserver_state = "q1"
  /\ project_id # "q1"

\* C20: GetProjectId stores the query's id before validate_namespace sees
\* it: when a development-server request's query-parameter id fails
\* validation the request ends with BadValueError and the id is remembered,
\* and a development-server request without any signal that finds such an
\* id remembered resolves to it and ends with BadValueError too.
C20_SlotWrittenBeforeValidation ==
  /\ (ValidationFailed /\ os_environ.dev /\ ResolvedByQuery(os_environ)) =>
       /\ error = "BadValueError"
       /\ project_id = GetProjectIdFromQueryParam(os_environ)
       /\ dev_appserver_state = project_id
  /\ (Called("GetProjectId") /\ os_environ.dev /\ NoSignal
        /\ ~validate_namespace(OrEmpty(dev_appserver_state))) =>
       /\ project_id = dev_appserver_state
       /\ ValidationFailed
       /\ error = "BadValueError"

\* a development-server request without any signal, failing on the invalid
\* id an earlier request left behind
C20_Witness ==
  /\ Called("GetProjectId")
  /\ os_environ.dev
  /\ NoSignal
  /\ dev_appserver_state = BadProjectId
  /\ project_id = BadProjectId
  /\ ValidationFailed
  /\ error = "BadValueError"

\* the labels are those of a host GetProjectIdFromHttpHost gives no id for:
\* localhost, four decimal numbers, <app-id>.appspot.com or the default
\* version hostname
HostWithoutProject(labels) ==
  \/ labels = <<"localhost">>
  \/ Len(labels) = 4 /\ \A i \in 1..4 : labels[i] \in Octets
  \/ Len(labels) = 3 /\ labels[1] # "" /\ labels[2] = "appspot"
       /\ labels[3] = "com"
  \/ labels = <<"your-app-id", "appspot", "com">>

====
